---- MODULE Spec2Model ----
(***************************************************************************)
(* Model of the OCR repository's scripts:                                  *)
(*   - extract_fullcontent_to_excel.py : section locator, table recovery   *)
(*     heuristic (parse_table_from_section) and main;                      *)
(*   - complete_pdf_extractor.py       : the per-page vision extraction    *)
(*     loop of EnhancedPDFExtractor, its merge steps and its output files; *)
(*   - csv_to_excel_converter.py and CSV_To_Excel.py : the key-value       *)
(*     converter and the flattener of column structured_data.              *)
(* The text of the table recovery is modelled at character level: a        *)
(* string is a sequence of one-character strings, a line list is a         *)
(* sequence of such sequences.  JSON values and the cells of the           *)
(* flattener's frames are records.                                         *)
(***************************************************************************)
EXTENDS Integers, Sequences, FiniteSets, TLC

VARIABLES
    section,      \* parse_table_from_section: the argument section_lines
    pc,           \* "start" before the call, "done" after it
    outcome,      \* "none" | "returned" | "raised"
    method,       \* the method tag returned
    table,        \* the DataFrame returned (None when there is none)
    csv_block,    \* the block handed to pd.read_csv by the delimited strategy
    round,        \* 0: first call, 1: the call on the fed-back raw cell
    prev_cell,    \* the FullContent cell of the first call, once fed back
    raw_text,     \* find_full_content_section: the argument raw_text
    lpc,          \* "start" | "done" for find_full_content_section
    found,        \* its result (section_lines, header_idx, header_text)
    epc,          \* extract_pdf_with_vision: the statement about to run
    num_pages,    \* len(doc)
    page_num,     \* the loop variable of the page loop
    results,      \* the results dict
    files,        \* the output files written so far, in order
    returned,     \* "" | "results" | "None": what the call returned
    raised_at,    \* the statement whose exception reached the outer except
    script,       \* the script that is run as a program
    argc,         \* the number of positional arguments on its command line
    input_exists, \* whether the input file of the script exists
    mpc,          \* the statement of the script about to run
    written,      \* the writes of output files so far, in order
    exit_code,    \* the exit code of the process, -1 while it runs
    fpc,          \* the flattening of CSV_To_Excel.py: "start" | "done" | "raised"
    df_in,        \* the frame pd.read_csv gives the script
    df_out        \* the frame the script has built for its workbook

parser_vars == <<section, pc, outcome, method, table, csv_block, round, prev_cell>>
locator_vars == <<raw_text, lpc, found>>
extractor_vars == <<epc, num_pages, page_num, results, files, returned, raised_at>>

script_vars == <<script, argc, input_exists, mpc, written, exit_code>>
flattener_vars == <<fpc, df_in, df_out>>

vars == <<parser_vars, locator_vars, extractor_vars, script_vars, flattener_vars>>

None == <<"<None>">>
NaN == <<"<NaN>">>
EOL == "EOL"

-----------------------------------------------------------------------------
(* Character classes and the str methods the scripts use.                  *)

UpperLetters == <<"A","B","C","D","E","F","G","H","I","J","K","L","M",
                  "N","O","P","Q","R","S","T","U","V","W","X","Y","Z">>
LowerLetters == <<"a","b","c","d","e","f","g","h","i","j","k","l","m",
                  "n","o","p","q","r","s","t","u","v","w","x","y","z">>
Digits == {"0","1","2","3","4","5","6","7","8","9"}

UpperSet == {UpperLetters[i] : i \in 1..26}
LowerSet == {LowerLetters[i] : i \in 1..26}
IsUpper(c) == c \in UpperSet
IsLower(c) == c \in LowerSet
IsAlpha(c) == IsUpper(c) \/ IsLower(c)
\* \w of the re module (ASCII part)
IsWordChar(c) == IsAlpha(c) \/ c \in Digits \/ c = "_"
\* \s of the re module and the default set of str.strip()
IsSpace(c) == c \in {" ", "\t", "\n"}

LowerOf == [c \in UpperSet |-> LowerLetters[CHOOSE i \in 1..26 : UpperLetters[i] = c]]
LowerChar(c) == IF IsUpper(c) THEN LowerOf[c] ELSE c
\* str.lower()
Lower(s) == [i \in 1..Len(s) |-> LowerChar(s[i])]

\* first position q >= p of s whose character is outside S (Len(s)+1 if none)
SkipIn(s, p, S) ==
    CHOOSE q \in p..(Len(s) + 1) :
        /\ (q = Len(s) + 1 \/ s[q] \notin S)
        /\ \A r \in p..(q - 1) : s[r] \in S

\* last position q <= p of s whose character is outside S (0 if none)
SkipBackIn(s, p, S) ==
    CHOOSE q \in 0..p :
        /\ (q = 0 \/ s[q] \notin S)
        /\ \A r \in (q + 1)..p : s[r] \in S

\* str.strip(chars)
StripChars(s, S) ==
    LET a == SkipIn(s, 1, S)
        b == SkipBackIn(s, Len(s), S)
    IN  IF a > b THEN <<>> ELSE SubSeq(s, a, b)

WhiteSpace == {" ", "\t", "\n"}
\* str.strip()
Strip(s) == StripChars(s, WhiteSpace)

\* str.startswith
StartsWith(s, p) == Len(s) >= Len(p) /\ SubSeq(s, 1, Len(p)) = p
\* c in s, for a one-character c
HasChar(s, c) == \E i \in 1..Len(s) : s[i] = c
\* p occurs in s at position i
OccursAt(s, p, i) == i >= 1 /\ i + Len(p) - 1 <= Len(s) /\ SubSeq(s, i, i + Len(p) - 1) = p

RECURSIVE Join(_, _)
\* sep.join(parts)
Join(parts, sep) ==
    IF Len(parts) = 0 THEN <<>>
    ELSE IF Len(parts) = 1 THEN parts[1]
    ELSE parts[1] \o sep \o Join(Tail(parts), sep)

RECURSIVE SplitOn(_, _)
\* s.split(c) for a one-character separator c
SplitOn(s, c) ==
    LET q == SkipIn(s, 1, {x \in {s[i] : i \in 1..Len(s)} : x # c})
    IN  IF q > Len(s) THEN <<s>>
        ELSE <<SubSeq(s, 1, q - 1)>> \o SplitOn(SubSeq(s, q + 1, Len(s)), c)

\* s.split(c, 1)
SplitFirst(s, c) ==
    LET q == SkipIn(s, 1, {x \in {s[i] : i \in 1..Len(s)} : x # c})
    IN  IF q > Len(s) THEN <<s>>
        ELSE <<SubSeq(s, 1, q - 1), SubSeq(s, q + 1, Len(s))>>

MaxOf(S) == CHOOSE m \in S : \A x \in S : x <= m

\* s[:n]
Prefix(s, n) == SubSeq(s, 1, IF n < Len(s) THEN n ELSE Len(s))

-----------------------------------------------------------------------------
(* extract_fullcontent_to_excel.py: the three block detectors.             *)

NL == <<"\n">>

\* lines[i].strip().startswith("|") and "|" in lines[i].strip()[1:]
IsPipeHeader(ln) ==
    LET s == Strip(ln)
    IN  StartsWith(s, <<"|">>) /\ HasChar(Tail(s), "|")

\* re.search(r"^\s*\|?\s*:?-{2,}\s*(\|.+)?$", ln)
IsSeparatorLine(ln) ==
    LET n  == Len(ln)
        p1 == SkipIn(ln, 1, WhiteSpace)
        p2 == IF p1 <= n /\ ln[p1] = "|" THEN p1 + 1 ELSE p1
        p3 == SkipIn(ln, p2, WhiteSpace)
        p4 == IF p3 <= n /\ ln[p3] = ":" THEN p3 + 1 ELSE p3
        p5 == SkipIn(ln, p4, {"-"})
        p6 == SkipIn(ln, p5, WhiteSpace)
        rest == SubSeq(ln, p6 + 1, n)
        body == IF Len(rest) > 0 /\ rest[Len(rest)] = "\n"
                THEN SubSeq(rest, 1, Len(rest) - 1) ELSE rest
    IN  /\ p5 - p4 >= 2
        /\ \/ p6 = n + 1
           \/ /\ ln[p6] = "|"
              /\ Len(body) >= 1
              /\ ~HasChar(body, "\n")

\* extract_markdown_pipe_table: the joined block, or None
ExtractMarkdownPipeTable(lines) ==
    LET n == Len(lines)
        starts == {i \in 1..n : /\ IsPipeHeader(lines[i])
                                /\ i + 1 <= n
                                /\ IsSeparatorLine(lines[i + 1])}
    IN  IF starts = {} THEN None
        ELSE LET start == CHOOSE i \in starts : \A k \in starts : i <= k
                 end == CHOOSE j \in (start + 2)..(n + 1) :
                          /\ (j = n + 1 \/ ~StartsWith(Strip(lines[j]), <<"|">>))
                          /\ \A r \in (start + 2)..(j - 1) :
                                StartsWith(Strip(lines[r]), <<"|">>)
             IN  Join(SubSeq(lines, start, end - 1), NL)

\* ln.count(",") >= 1
HasComma(ln) == HasChar(ln, ",")

\* a mutation of RunQualifies: a single comma line already makes a block
RunQualifiesMin1(consec) == consec >= 1

\* consec >= 2: the run just ended is long enough to be kept as a block
RunQualifies(consec) == consec >= 2

RECURSIVE CsvLikeLoop(_, _, _, _)
\* the for loop of extract_csv_like_block and the check after it;
\* consec is len(block) throughout
CsvLikeLoop(lines, i, block, blocks) ==
    IF i > Len(lines)
    THEN IF RunQualifies(Len(block)) THEN Append(blocks, block) ELSE blocks
    ELSE IF HasComma(lines[i])
         THEN CsvLikeLoop(lines, i + 1, Append(block, lines[i]), blocks)
         ELSE CsvLikeLoop(lines, i + 1, <<>>,
                          IF RunQualifies(Len(block)) THEN Append(blocks, block)
                          ELSE blocks)

\* largest = max(blocks, key=len): the first block of the greatest length
\* (the empty list when blocks is empty)
CsvLikeLines(lines) ==
    LET blocks == CsvLikeLoop(lines, 1, <<>>, <<>>)
    IN  IF Len(blocks) = 0 THEN <<>>
        ELSE blocks[CHOOSE i \in 1..Len(blocks) :
                        /\ \A k \in 1..Len(blocks) : Len(blocks[k]) <= Len(blocks[i])
                        /\ \A k \in 1..(i - 1) : Len(blocks[k]) < Len(blocks[i])]

\* extract_csv_like_block: "\n".join(largest), or None
ExtractCsvLikeBlock(lines) ==
    LET largest == CsvLikeLines(lines)
    IN  IF Len(largest) = 0 THEN None ELSE Join(largest, NL)

\* the character class [\w \-()\/]
InKeyClass(c) == IsWordChar(c) \/ c \in {" ", "-", "(", ")", "/"}

\* ":" in ln and re.match(r"^\s*[\w \-()\/]+:\s*", ln)
IsKeyValueLine(ln) ==
    /\ HasChar(ln, ":")
    /\ \E a \in 0..Len(ln), b \in 1..Len(ln) :
          /\ a < b /\ b + 1 <= Len(ln)
          /\ \A r \in 1..a : IsSpace(ln[r])
          /\ \A r \in (a + 1)..b : InKeyClass(ln[r])
          /\ ln[b + 1] = ":"

\* extract_key_value_block; its None is the empty list here (the caller
\* tests the result for truth only)
ExtractKeyValueBlock(lines) ==
    LET kv_lines == SelectSeq(lines, IsKeyValueLine)
    IN  IF Len(kv_lines) >= 2 THEN kv_lines ELSE <<>>


-----------------------------------------------------------------------------
(* pd.read_csv(io.StringIO(text), sep=..., engine="python"): the python    *)
(* engine reads the records with csv.reader(strict=True), quotechar '"',   *)
(* doublequote, and the given skipinitialspace.                            *)

RECURSIVE CsvEvents(_, _)
\* what the reader is fed: the characters of each line io.StringIO yields
\* (split after every "\n"), each line followed by the end-of-line event
CsvEvents(text, i) ==
    IF i > Len(text) THEN <<>>
    ELSE IF text[i] = "\n" THEN <<"\n", EOL>> \o CsvEvents(text, i + 1)
    ELSE IF i = Len(text) THEN <<text[i], EOL>>
    ELSE <<text[i]>> \o CsvEvents(text, i + 1)

\* one call of the reader's parse_process_char; st is the parser state
CsvChar(st, field, fields, c, delim, skip) ==
    LET s0 == IF st = "START_RECORD" /\ c # EOL /\ c # "\n"
              THEN "START_FIELD" ELSE st
        eol == IF c = EOL THEN "START_RECORD" ELSE "EAT_CRNL"
        R(s, f, fs) == [st |-> s, field |-> f, fields |-> fs, err |-> FALSE]
        E == [st |-> st, field |-> field, fields |-> fields, err |-> TRUE]
    IN  CASE s0 = "START_RECORD" ->
                 IF c = EOL THEN R("START_RECORD", field, fields)
                 ELSE R("EAT_CRNL", field, fields)
          [] s0 = "START_FIELD" ->
                 IF c \in {"\n", EOL} THEN R(eol, <<>>, Append(fields, field))
                 ELSE IF c = "\"" THEN R("IN_QUOTED_FIELD", field, fields)
                 ELSE IF c = " " /\ skip THEN R("START_FIELD", field, fields)
                 ELSE IF c = delim THEN R("START_FIELD", <<>>, Append(fields, field))
                 ELSE R("IN_FIELD", Append(field, c), fields)
          [] s0 = "IN_FIELD" ->
                 IF c \in {"\n", EOL} THEN R(eol, <<>>, Append(fields, field))
                 ELSE IF c = delim THEN R("START_FIELD", <<>>, Append(fields, field))
                 ELSE R("IN_FIELD", Append(field, c), fields)
          [] s0 = "IN_QUOTED_FIELD" ->
                 IF c = EOL THEN R("IN_QUOTED_FIELD", field, fields)
                 ELSE IF c = "\"" THEN R("QUOTE_IN_QUOTED_FIELD", field, fields)
                 ELSE R("IN_QUOTED_FIELD", Append(field, c), fields)
          [] s0 = "QUOTE_IN_QUOTED_FIELD" ->
                 IF c = "\"" THEN R("IN_QUOTED_FIELD", Append(field, c), fields)
                 ELSE IF c = delim THEN R("START_FIELD", <<>>, Append(fields, field))
                 ELSE IF c \in {"\n", EOL} THEN R(eol, <<>>, Append(fields, field))
                 ELSE E      \* strict: "delimiter expected after quotechar"
          [] s0 = "EAT_CRNL" ->
                 IF c = "\n" THEN R("EAT_CRNL", field, fields)
                 ELSE IF c = EOL THEN R("START_RECORD", field, fields)
                 ELSE E

RECURSIVE CsvRun(_, _, _, _, _, _, _, _)
\* the reader's iteration: a record is complete when an end-of-line event
\* leaves the parser in START_RECORD; at the end of the input an open quoted
\* field is an error ("unexpected end of data")
CsvRun(ev, i, st, field, fields, recs, delim, skip) ==
    IF i > Len(ev)
    THEN IF st = "IN_QUOTED_FIELD" \/ Len(field) # 0
         THEN [err |-> TRUE, recs |-> <<>>]
         ELSE [err |-> FALSE, recs |-> recs]
    ELSE LET r == CsvChar(st, field, fields, ev[i], delim, skip)
         IN  IF r.err THEN [err |-> TRUE, recs |-> <<>>]
             ELSE IF ev[i] = EOL /\ r.st = "START_RECORD"
             THEN CsvRun(ev, i + 1, "START_RECORD", <<>>, <<>>,
                         Append(recs, r.fields), delim, skip)
             ELSE CsvRun(ev, i + 1, r.st, r.field, r.fields, recs, delim, skip)

\* csv.reader over the text: [err, recs]
CsvReader(text, delim, skip) ==
    CsvRun(CsvEvents(text, 1), 1, "START_RECORD", <<>>, <<>>, <<>>, delim, skip)

\* the strings read_csv turns into NaN by default (keep_default_na)
NAStrings ==
    {<<>>,
     <<"#","N","/","A">>,
     <<"#","N","/","A"," ","N","/","A">>,
     <<"#","N","A">>,
     <<"-","1",".","#","I","N","D">>,
     <<"-","1",".","#","Q","N","A","N">>,
     <<"-","N","a","N">>,
     <<"-","n","a","n">>,
     <<"1",".","#","I","N","D">>,
     <<"1",".","#","Q","N","A","N">>,
     <<"<","N","A",">">>,
     <<"N","/","A">>,
     <<"N","A">>,
     <<"N","U","L","L">>,
     <<"N","a","N">>,
     <<"N","o","n","e">>,
     <<"n","/","a">>,
     <<"n","a","n">>,
     <<"n","u","l","l">>}
IsNA(cell) == cell \in NAStrings

\* skip_blank_lines: a record is kept when it has more than one field or a
\* single field that is not blank
KeepRecord(rec) == Len(rec) > 1 \/ (Len(rec) = 1 /\ Strip(rec[1]) # <<>>)

DigitSeq == <<"0","1","2","3","4","5","6","7","8","9">>
\* str(i) for 0 <= i <= 99
IntStr(i) == IF i < 10 THEN <<DigitSeq[i + 1]>>
             ELSE <<DigitSeq[(i \div 10) + 1], DigitSeq[(i % 10) + 1]>>

Unnamed == <<"U","n","n","a","m","e","d">>
\* the header names: "Unnamed: i" for an empty name, "name.k" for the k-th
\* repetition of a name
HeaderNames(header) ==
    LET base == [i \in 1..Len(header) |->
                    IF header[i] = <<>> THEN Unnamed \o <<":", " ">> \o IntStr(i - 1)
                    ELSE header[i]]
        seen(i) == Cardinality({k \in 1..(i - 1) : base[k] = base[i]})
    IN  [i \in 1..Len(header) |->
            IF seen(i) = 0 THEN base[i] ELSE base[i] \o <<".">> \o IntStr(seen(i))]

ReadFailed == [ok |-> FALSE, columns |-> <<>>, index |-> <<>>, rows |-> <<>>]

\* pd.read_csv: [ok, columns, index, rows]; ok = FALSE when it raises.
\* Cell values are kept as text (no dtype inference).
ReadCsv(text, delim, skip) ==
    LET rd == CsvReader(text, delim, skip)
        recs == SelectSeq(rd.recs, KeepRecord)
    IN  IF rd.err \/ Len(recs) = 0 THEN ReadFailed
        ELSE
        LET header == recs[1]
            N == Len(header)
            L == IF Len(recs) >= 2 THEN Len(recs[2]) ELSE 0
            \* index names and column names on different rows
            case0 == Len(recs) >= 3 /\ Len(recs[3]) = L + N
            \* fewer names than fields in the first data row: implicit index
            nidx == IF case0 THEN L ELSE IF L > N THEN L - N ELSE 0
            data == IF case0 THEN SubSeq(recs, 3, Len(recs))
                    ELSE SubSeq(recs, 2, Len(recs))
            col_len == N + nidx
            pad(rec) == [k \in 1..col_len |->
                            IF k <= Len(rec) /\ ~IsNA(rec[k]) THEN rec[k] ELSE NaN]
        IN  IF \E r \in 1..Len(data) : Len(data[r]) > col_len
            THEN ReadFailed     \* "Expected n fields in line k, saw m"
            ELSE [ok |-> TRUE,
                  columns |-> HeaderNames(header),
                  index |-> [r \in 1..Len(data) |-> SubSeq(pad(data[r]), 1, nidx)],
                  rows |-> [r \in 1..Len(data) |->
                               SubSeq(pad(data[r]), nidx + 1, col_len)]]


-----------------------------------------------------------------------------
(* parse_table_from_section                                                *)

RECURSIVE SplitLines(_)
\* str.splitlines() (line breaks other than "\n" are not in the alphabet)
SplitLines(text) ==
    IF Len(text) = 0 THEN <<>>
    ELSE LET q == SkipIn(text, 1, {x \in {text[i] : i \in 1..Len(text)} : x # "\n"})
         IN  IF q > Len(text) THEN <<text>>
             ELSE <<SubSeq(text, 1, q - 1)>> \o SplitLines(SubSeq(text, q + 1, Len(text)))

\* a DataFrame: column names, index cells per row, data cells per row
DataFrame(columns, index, rows) ==
    [none |-> FALSE, columns |-> columns, index |-> index, rows |-> rows]
\* Python's None where a DataFrame is expected
NoTable == [none |-> TRUE, columns |-> <<>>, index |-> <<>>, rows |-> <<>>]

\* the markdown strategy's post-processing of the frame read_csv returned:
\* drop the Unnamed columns that hold no value, strip the names, dropna(how="all")
CleanPipeFrame(df) ==
    LET keep == {c \in 1..Len(df.columns) :
                    \/ ~StartsWith(df.columns[c], Unnamed)
                    \/ \E r \in 1..Len(df.rows) : df.rows[r][c] # NaN}
        pick(seq) == SelectSeq([c \in 1..Len(seq) |-> <<c, seq[c]>>],
                               LAMBDA x : x[1] \in keep)
        proj(seq) == LET p == pick(seq) IN [k \in 1..Len(p) |-> p[k][2]]
        cols == LET p == proj(df.columns) IN [k \in 1..Len(p) |-> Strip(p[k])]
        live == {r \in 1..Len(df.rows) : \E c \in keep : df.rows[r][c] # NaN}
        liveSeq == SelectSeq([r \in 1..Len(df.rows) |-> r], LAMBDA r : r \in live)
    IN  DataFrame(cols,
                  [k \in 1..Len(liveSeq) |-> df.index[liveSeq[k]]],
                  [k \in 1..Len(liveSeq) |-> proj(df.rows[liveSeq[k]])])

\* re.split(r"\s*\|\s*", x): the pieces between the pipes, without the
\* whitespace the pattern consumes next to each pipe
ReSplitPipe(x) ==
    LET parts == SplitOn(x, "|")
        n == Len(parts)
    IN  [k \in 1..n |->
            LET a == IF k > 1 THEN SkipIn(parts[k], 1, WhiteSpace) ELSE 1
                b == IF k < n THEN SkipBackIn(parts[k], Len(parts[k]), WhiteSpace)
                     ELSE Len(parts[k])
            IN  IF a > b THEN <<>> ELSE SubSeq(parts[k], a, b)]

\* [cell.strip() for cell in re.split(..., r.strip("| \t")) if cell.strip() != ""]
ManualCells(r) ==
    LET cells == SelectSeq(ReSplitPipe(StripChars(r, {"|", " ", "\t"})),
                           LAMBDA cell : Strip(cell) # <<>>)
    IN  [k \in 1..Len(cells) |-> Strip(cells[k])]

\* re.search(r"^-{2,}", x)
StartsWithDashes(x) == StartsWith(x, <<"-", "-">>)

\* the element of a one-element set; "x \in {e}" binds the value of e once,
\* as the assignment to a local variable does
The(S) == CHOOSE x \in S : TRUE

Raised == [outcome |-> "raised", method |-> "", table |-> NoTable]
FallThrough == [outcome |-> "none", method |-> "", table |-> NoTable]
Returned(df, m) == [outcome |-> "returned", method |-> m, table |-> df]

\* the except branch of the markdown strategy (manual splitting on pipes);
\* an exception raised here is not caught by anything
ManualPipe(md) ==
    The({(IF Len(rows) < 2 THEN FallThrough
          ELSE IF Len(rows[2]) = 0 THEN Raised          \* rows[1][0]: IndexError
          ELSE
          LET header == rows[1]
              data_rows == IF \/ StartsWithDashes(rows[2][1])
                              \/ StartsWithDashes(Join(rows[2], <<"|">>))
                           THEN SubSeq(rows, 3, Len(rows))
                           ELSE SubSeq(rows, 2, Len(rows))
          IN  IF Len(data_rows) = 0 THEN Raised         \* data_rows[0]: IndexError
              ELSE
              LET columns == Prefix(header, Len(data_rows[1]))
                  width == MaxOf({Len(data_rows[r]) : r \in 1..Len(data_rows)})
              IN  IF Len(columns) # width
                  THEN Raised   \* "n columns passed, passed data had m columns"
                  ELSE Returned(DataFrame(columns,
                                          [r \in 1..Len(data_rows) |-> <<>>],
                                          [r \in 1..Len(data_rows) |->
                                             [c \in 1..width |->
                                                IF c <= Len(data_rows[r])
                                                THEN data_rows[r][c] ELSE NaN]]),
                                "markdown_pipe_manual")) :
         rows \in {[k \in 1..Len(SplitLines(md)) |-> ManualCells(SplitLines(md)[k])]}})

\* strategy 1: markdown pipe table
TryMarkdown(lines) ==
    The({(IF md = None THEN FallThrough
          ELSE The({(IF df.ok THEN Returned(CleanPipeFrame(df), "markdown_pipe")
                     ELSE ManualPipe(md)) :
                    df \in {ReadCsv(md, "|", TRUE)}})) :
         md \in {ExtractMarkdownPipeTable(lines)}})

Frame(df) == DataFrame(df.columns, df.index, df.rows)

\* strategy 2: delimited block, read strictly and then relaxed
TryCsv(lines) ==
    The({(IF block = None THEN FallThrough
          ELSE The({(IF df.ok THEN Returned(Frame(df), "csv_block")
                     ELSE The({(IF df2.ok THEN Returned(Frame(df2), "csv_block_relaxed")
                                ELSE FallThrough) :
                               df2 \in {ReadCsv(block, ",", TRUE)}})) :
                    df \in {ReadCsv(block, ",", FALSE)}})) :
         block \in {ExtractCsvLikeBlock(lines)}})

FieldName == <<"F","i","e","l","d">>
ValueName == <<"V","a","l","u","e">>
ParagraphName == <<"P","a","r","a","g","r","a","p","h">>
FullContentName == <<"F","u","l","l","C","o","n","t","e","n","t">>

\* a mutation of TryKeyValue: the key and the value are not stripped
TryKeyValueUnstripped(lines) ==
    LET kv == ExtractKeyValueBlock(lines)
    IN  IF Len(kv) = 0 THEN FallThrough
        ELSE Returned(DataFrame(<<FieldName, ValueName>>,
                                [r \in 1..Len(kv) |-> <<>>],
                                [r \in 1..Len(kv) |-> SplitFirst(kv[r], ":")]),
                      "key_value")

\* strategy 3: key-value block
TryKeyValue(lines) ==
    LET kv == ExtractKeyValueBlock(lines)
    IN  IF Len(kv) = 0 THEN FallThrough
        ELSE Returned(DataFrame(<<FieldName, ValueName>>,
                                [r \in 1..Len(kv) |-> <<>>],
                                [r \in 1..Len(kv) |->
                                   LET parts == SplitFirst(kv[r], ":")
                                   IN  <<Strip(parts[1]), Strip(parts[2])>>]),
                      "key_value")

\* a mutation of RawText: every line is terminated by "\n" and nothing is stripped
RawTextTerminated(lines) == Join(lines, NL) \o NL

\* text = "\n".join(section_lines).strip()
RawText(lines) == Strip(Join(lines, NL))

RECURSIVE ReSplitBlank(_)
\* re.split(r"\n\s*\n", text): cut at the leftmost "\n" that is followed,
\* after whitespace only, by another "\n"; the match runs to the last such "\n"
ReSplitBlank(text) ==
    LET n == Len(text)
        cuts == {i \in 1..n : /\ text[i] = "\n"
                              /\ \E j \in (i + 1)..n :
                                    /\ text[j] = "\n"
                                    /\ \A r \in (i + 1)..(j - 1) : IsSpace(text[r])}
    IN  IF cuts = {} THEN <<text>>
        ELSE LET i == CHOOSE c \in cuts : \A d \in cuts : c <= d
                 e == SkipIn(text, i, WhiteSpace) - 1
                 j == CHOOSE k \in (i + 1)..e :
                         text[k] = "\n" /\ \A r \in (k + 1)..e : text[r] # "\n"
             IN  <<SubSeq(text, 1, i - 1)>> \o ReSplitBlank(SubSeq(text, j + 1, n))

\* strategies 4 and 5: paragraphs, then the raw single cell
TryText(lines) ==
    LET text == RawText(lines)
        parts == SelectSeq(ReSplitBlank(text), LAMBDA p : Strip(p) # <<>>)
        paras == [k \in 1..Len(parts) |-> Strip(parts[k])]
    IN  IF Len(paras) > 1
        THEN Returned(DataFrame(<<ParagraphName>>,
                                [r \in 1..Len(paras) |-> <<>>],
                                [r \in 1..Len(paras) |-> <<paras[r]>>]),
                      "paragraphs")
        ELSE Returned(DataFrame(<<FullContentName>>, <<<<>>>>, <<<<text>>>>),
                      "raw_single")

\* parse_table_from_section: [outcome, method, table]
ParseTableFromSection(section_lines) ==
    IF Len(section_lines) = 0 THEN Returned(NoTable, "empty")
    ELSE The({(IF r1.outcome # "none" THEN r1
               ELSE The({(IF r2.outcome # "none" THEN r2
                          ELSE The({(IF r3.outcome # "none" THEN r3
                                     ELSE TryText(section_lines)) :
                                    r3 \in {TryKeyValue(section_lines)}})) :
                         r2 \in {TryCsv(section_lines)}})) :
              r1 \in {TryMarkdown(section_lines)}})

-----------------------------------------------------------------------------
(* extract_fullcontent_to_excel.py: the section locator.                   *)

FULL_CONTENT_KEYS ==
    <<<<"C","O","M","P","L","E","T","E"," ","E","X","T","R","A","C","T","E","D"," ","C","O","N","T","E","N","T">>,
     <<"F","U","L","L"," ","C","O","N","T","E","N","T">>,
     <<"F","U","L","L","_","C","O","N","T","E","N","T">>,
     <<"F","U","L","L","_","C","O","N","T","E","N","T","S">>,
     <<"C","O","M","P","L","E","T","E"," ","E","X","T","R","A","C","T","E","D"," ","C","O","N","T","E","N","T","S">>,
     <<"C","O","M","P","L","E","T","E"," ","C","O","N","T","E","N","T">>,
     <<"F","U","L","L","_","C","O","N","T","E","N","T","_","S","E","C","T","I","O","N">>,
     <<"f","u","l","l","_","c","o","n","t","e","n","t">>>>

\* [k.lower() for k in FULL_CONTENT_KEYS]
LowerKeys == [k \in 1..Len(FULL_CONTENT_KEYS) |-> Lower(FULL_CONTENT_KEYS[k])]

\* [A-Z0-9 \-_/&]
InHeaderClass(c) == IsUpper(c) \/ c \in Digits \/ c \in {" ", "-", "_", "/", "&"}

MinHeaderLen == 2
MaxHeaderLen == 120

\* re.fullmatch(r"[A-Z0-9 \-_/&]{2,120}", s)
IsHeaderShaped(s) ==
    /\ Len(s) >= MinHeaderLen
    /\ Len(s) <= MaxHeaderLen
    /\ \A i \in 1..Len(s) : InHeaderClass(s[i])

\* re.search(r"\b(w1|w2|...)\b", s) for words that begin and end with a
\* word character
HasWord(s, ws) ==
    \E w \in ws : \E p \in 1..Len(s) :
        /\ OccursAt(s, w, p)
        /\ (p = 1 \/ ~IsWordChar(s[p - 1]))
        /\ (p + Len(w) - 1 = Len(s) \/ ~IsWordChar(s[p + Len(w)]))

HeaderWords == {<<"C","O","N","T","E","N","T">>, <<"C","O","M","P","L","E","T","E">>, <<"P","A","G","E">>, <<"E","X","T","R","A","C","T","E","D">>, <<"F","U","L","L">>}
TerminatorWords == {<<"M","E","T","A","D","A","T","A">>, <<"S","U","M","M","A","R","Y">>, <<"W","E","L","L">>, <<"S","T","A","N","D","A","R","D","S">>, <<"S","A","M","P","L","E","S">>, <<"P","A","G","E"," ","C","O","N","T","E","N","T">>, <<"C","O","M","P","L","E","T","E">>, <<"F","U","L","L">>, <<"S","E","T","T","I","N","G","S">>}
CompletenessWords == {<<"C","O","M","P","L","E","T","E">>, <<"E","X","T","R","A","C","T","E","D">>, <<"F","U","L","L">>}
\* (CONTENT|CONTENTs|PAGE) under re.I
ContentWords == {<<"C","O","N","T","E","N","T">>, <<"C","O","N","T","E","N","T","S">>, <<"P","A","G","E">>}

\* the test detect_section_headers applies to a stripped line
IsHeuristicHeader(s) ==
    /\ IsHeaderShaped(s)
    /\ \E i \in 1..Len(s) : IsAlpha(s[i])
    /\ HasWord(s, HeaderWords)

RECURSIVE DetectFrom(_, _)
\* detect_section_headers: the list of (index, text), indexes from 0
DetectFrom(lines, i) ==
    IF i > Len(lines) THEN <<>>
    ELSE LET s == Strip(lines[i])
             low == Lower(s)
             exact == SelectSeq([k \in 1..Len(FULL_CONTENT_KEYS) |-> k],
                                LAMBDA k : low = LowerKeys[k])
             byKey == [j \in 1..Len(exact) |->
                         [idx |-> i - 1, txt |-> FULL_CONTENT_KEYS[exact[j]]]]
             byShape == IF IsHeuristicHeader(s)
                        THEN <<[idx |-> i - 1, txt |-> s]>> ELSE <<>>
         IN  (IF Len(s) = 0 THEN <<>> ELSE byKey \o byShape)
             \o DetectFrom(lines, i + 1)

DetectSectionHeaders(lines) == DetectFrom(lines, 1)

\* the test extract_section applies to a later line to end the section
IsTerminator(ln) ==
    LET s == Strip(ln)
    IN  Len(s) > 0 /\ IsHeaderShaped(s) /\ HasWord(s, TerminatorWords)

IsBlank(ln) == Strip(ln) = <<>>

\* a mutation of ExtractSection: the terminating line is kept in the section
ExtractSectionInclusive(lines, header_idx) ==
    LET n == Len(lines)
        h == header_idx + 1
        ends == {j \in (h + 1)..n : IsTerminator(lines[j])}
        next == IF ends = {} THEN n + 1 ELSE CHOOSE j \in ends : \A k \in ends : j <= k
        body == SubSeq(lines, h + 1, IF next <= n THEN next ELSE n)
        a == CHOOSE q \in 1..(Len(body) + 1) :
                /\ (q = Len(body) + 1 \/ ~IsBlank(body[q]))
                /\ \A r \in 1..(q - 1) : IsBlank(body[r])
        b == CHOOSE q \in 0..Len(body) :
                /\ (q = 0 \/ ~IsBlank(body[q]))
                /\ \A r \in (q + 1)..Len(body) : IsBlank(body[r])
    IN  IF a > b THEN <<>> ELSE SubSeq(body, a, b)

\* extract_section(lines, header_idx); header_idx counts from 0
ExtractSection(lines, header_idx) ==
    LET n == Len(lines)
        h == header_idx + 1
        ends == {j \in (h + 1)..n : IsTerminator(lines[j])}
        next == IF ends = {} THEN n + 1 ELSE CHOOSE j \in ends : \A k \in ends : j <= k
        body == SubSeq(lines, h + 1, next - 1)
        a == CHOOSE q \in 1..(Len(body) + 1) :
                /\ (q = Len(body) + 1 \/ ~IsBlank(body[q]))
                /\ \A r \in 1..(q - 1) : IsBlank(body[r])
        b == CHOOSE q \in 0..Len(body) :
                /\ (q = 0 \/ ~IsBlank(body[q]))
                /\ \A r \in (q + 1)..Len(body) : IsBlank(body[r])
    IN  IF a > b THEN <<>> ELSE SubSeq(body, a, b)

\* ln.strip().lower() in [k.lower() for k in FULL_CONTENT_KEYS]
IsExactKey(ln) ==
    LET low == Lower(Strip(ln))
    IN  \E k \in 1..Len(LowerKeys) : low = LowerKeys[k]

\* both re.search tests of find_full_content_section, under re.I
HasBothWords(txt) ==
    /\ HasWord(Lower(txt), {Lower(w) : w \in CompletenessWords})
    /\ HasWord(Lower(txt), {Lower(w) : w \in ContentWords})

NotFound == [none |-> TRUE, section_lines |-> <<>>, header_idx |-> -1,
             header_text |-> None]
Found(sec, idx, txt) == [none |-> FALSE, section_lines |-> sec, header_idx |-> idx,
                         header_text |-> txt]

\* a mutation of FindFullContentSection: only the exact headers are looked for
FindExactOnly(text) ==
    LET lines == SplitLines(text)
        exact == {i \in 1..Len(lines) : IsExactKey(lines[i])}
    IN  IF exact # {}
        THEN LET i == CHOOSE x \in exact : \A y \in exact : x <= y
             IN  Found(ExtractSection(lines, i - 1), i - 1, lines[i])
        ELSE NotFound

\* a mutation of FindFullContentSection: the heuristic headers are looked at
\* before the exact ones
FindHeuristicFirst(text) ==
    LET lines == SplitLines(text)
        exact == {i \in 1..Len(lines) : IsExactKey(lines[i])}
        detected == DetectSectionHeaders(lines)
        both == {k \in 1..Len(detected) : HasBothWords(detected[k].txt)}
    IN  IF Len(detected) > 0
        THEN LET k == IF both # {} THEN CHOOSE x \in both : \A y \in both : x <= y
                      ELSE 1
             IN  Found(ExtractSection(lines, detected[k].idx), detected[k].idx,
                       detected[k].txt)
        ELSE IF exact # {}
        THEN LET i == CHOOSE x \in exact : \A y \in exact : x <= y
             IN  Found(ExtractSection(lines, i - 1), i - 1, lines[i])
        ELSE NotFound

\* find_full_content_section(raw_text)
FindFullContentSection(text) ==
    LET lines == SplitLines(text)
        exact == {i \in 1..Len(lines) : IsExactKey(lines[i])}
        detected == DetectSectionHeaders(lines)
        both == {k \in 1..Len(detected) : HasBothWords(detected[k].txt)}
    IN  IF exact # {}
        THEN LET i == CHOOSE x \in exact : \A y \in exact : x <= y
             IN  Found(ExtractSection(lines, i - 1), i - 1, lines[i])
        ELSE IF Len(detected) > 0
        THEN LET k == IF both # {} THEN CHOOSE x \in both : \A y \in both : x <= y
                      ELSE 1
             IN  Found(ExtractSection(lines, detected[k].idx), detected[k].idx,
                       detected[k].txt)
        ELSE NotFound

-----------------------------------------------------------------------------
(* complete_pdf_extractor.py: EnhancedPDFExtractor.                        *)
(* A JSON value is [type, text, items, members]: members is the sequence   *)
(* of <<key, value>> pairs of an object, items the elements of an array    *)
(* (elements are plain strings here).  A page text is [error, page, body]. *)

JNum == [type |-> "number", text |-> "", items |-> <<>>, members |-> <<>>]
JInt(t) == [type |-> "number", text |-> t, items |-> <<>>, members |-> <<>>]
JStr(t) == [type |-> "string", text |-> t, items |-> <<>>, members |-> <<>>]
JArr(xs) == [type |-> "array", text |-> "", items |-> xs, members |-> <<>>]
JObj(ms) == [type |-> "object", text |-> "", items |-> <<>>, members |-> ms]

\* reply texts of the model
\* '{"well_plate_data": ["A01"], "wells": ["B01"], "standards": ["S01"],
\*   "settings": {"gain": "100"}, "samples": ["U01"]}'
FirstKeysText == "first-keys object"
\* '{"wells": ["B02"], "standards_table": ["S02"],
\*   "instrument_settings": {"mode": "top"}, "sample_data": ["U02"]}'
SecondKeysText == "second-keys object"
\* '{"wells": 7}'
ScalarWellsText == "object with a number under wells"
\* '{"wells": {"A1": "0.5"}}'
ObjectWellsText == "object with an object under wells"
\* '{"wells": ["A1"], "note": "\ud83d"}': the escape of a lone surrogate
SurrogateText == "object with the escape of a lone surrogate"
\* the string json.loads makes of "\ud83d": one surrogate code point
LoneSurrogate == "<U+D83D>"
\* '42'
NumberText == "42"
\* 'The page shows no table.'
ProseText == "The page shows no table."

\* cell texts of a column structured_data
AOneText == "{\"a\": 1}"
ATwoText == "{\"a\": 2}"
NestedText == "{\"a\": {\"b\": 1}}"
PageKeyText == "{\"page\": 7}"
OtherKeyText == "{\"c\": 3}"
NotJsonText == "oops"

ReplyTexts ==
    {FirstKeysText, SecondKeysText, ScalarWellsText, ObjectWellsText, SurrogateText,
     NumberText, ProseText}

\* json.loads(content) on the reply texts: [ok, value]
JsonLoads(content) ==
    CASE content = FirstKeysText ->
            [ok |-> TRUE,
             value |-> JObj(<< <<"well_plate_data", JArr(<<"A01">>)>>,
                               <<"wells", JArr(<<"B01">>)>>,
                               <<"standards", JArr(<<"S01">>)>>,
                               <<"settings", JObj(<< <<"gain", JStr("100")>> >>)>>,
                               <<"samples", JArr(<<"U01">>)>> >>)]
      [] content = SecondKeysText ->
            [ok |-> TRUE,
             value |-> JObj(<< <<"wells", JArr(<<"B02">>)>>,
                               <<"standards_table", JArr(<<"S02">>)>>,
                               <<"instrument_settings", JObj(<< <<"mode", JStr("top")>> >>)>>,
                               <<"sample_data", JArr(<<"U02">>)>> >>)]
      [] content = ScalarWellsText ->
            [ok |-> TRUE, value |-> JObj(<< <<"wells", JNum>> >>)]
      [] content = ObjectWellsText ->
            [ok |-> TRUE,
             value |-> JObj(<< <<"wells", JObj(<< <<"A1", JStr("0.5")>> >>)>> >>)]
      [] content = SurrogateText ->
            [ok |-> TRUE,
             value |-> JObj(<< <<"wells", JArr(<<"A1">>)>>,
                               <<"note", JStr(LoneSurrogate)>> >>)]
      [] content = NumberText -> [ok |-> TRUE, value |-> JNum]
      [] content = AOneText -> [ok |-> TRUE, value |-> JObj(<< <<"a", JInt("1")>> >>)]
      [] content = ATwoText -> [ok |-> TRUE, value |-> JObj(<< <<"a", JInt("2")>> >>)]
      [] content = NestedText ->
            [ok |-> TRUE,
             value |-> JObj(<< <<"a", JObj(<< <<"b", JInt("1")>> >>)>> >>)]
      [] content = PageKeyText -> [ok |-> TRUE, value |-> JObj(<< <<"page", JInt("7")>> >>)]
      [] content = OtherKeyText -> [ok |-> TRUE, value |-> JObj(<< <<"c", JInt("3")>> >>)]
      [] OTHER -> [ok |-> FALSE, value |-> JNum]

\* what self.client.messages.create and response.content[0].text give for a
\* page: an exception, a response without content blocks, or a reply text
Responses ==
    {[kind |-> "api_error", text |-> ""], [kind |-> "no_content", text |-> ""]}
    \cup {[kind |-> "text", text |-> t] : t \in ReplyTexts}

Text(t) == [error |-> FALSE, page |-> 0, body |-> t]
\* f"Error analyzing page {page_num}: {str(e)}"
ErrorText(n, e) == [error |-> TRUE, page |-> n, body |-> e]

\* a mutation of AnalyzePageDetailed: the record of a failed call is numbered
\* from 0 and holds the error under raw_content
AnalyzePageDetailedMisrecorded(resp, n) ==
    IF resp.kind = "text"
    THEN LET parsed == JsonLoads(resp.text)
         IN  [page_number |-> n,
              text_content |-> Text(resp.text),
              structured_data |->
                  IF parsed.ok THEN parsed.value
                  ELSE JObj(<< <<"raw_content", JStr(resp.text)>> >>)]
    ELSE [page_number |-> n - 1,
          text_content |-> ErrorText(n, resp.kind),
          structured_data |-> JObj(<< <<"raw_content", JStr(resp.kind)>> >>)]

\* analyze_page_detailed(img_b64, page_num): the page record
AnalyzePageDetailed(resp, n) ==
    IF resp.kind = "text"
    THEN LET parsed == JsonLoads(resp.text)
         IN  [page_number |-> n,
              text_content |-> Text(resp.text),
              structured_data |->
                  IF parsed.ok THEN parsed.value
                  ELSE JObj(<< <<"raw_content", JStr(resp.text)>> >>)]
    ELSE [page_number |-> n,
          text_content |-> ErrorText(n, resp.kind),
          structured_data |-> JObj(<<>>)]

Failed == [raises |-> TRUE, value |-> <<>>]
Value(v) == [raises |-> FALSE, value |-> v]

\* key in sd
Contains(sd, key) ==
    CASE sd.type = "object" -> Value(\E i \in 1..Len(sd.members) : sd.members[i][1] = key)
      [] sd.type = "array" -> Value(\E i \in 1..Len(sd.items) : sd.items[i] = key)
      [] OTHER -> Failed

\* sd[key], for an object that holds the key
Member(sd, key) ==
    sd.members[CHOOSE i \in 1..Len(sd.members) :
                   /\ sd.members[i][1] = key
                   /\ \A j \in (i + 1)..Len(sd.members) : sd.members[j][1] # key][2]

\* the elements list.extend(v) appends
Iterate(v) ==
    CASE v.type = "array" -> Value(v.items)
      [] v.type = "object" -> Value([i \in 1..Len(v.members) |-> v.members[i][1]])
      [] OTHER -> Failed

\* the pairs dict.update(v) stores
Pairs(v) ==
    CASE v.type = "object" -> Value(v.members)
      [] v.type = "array" -> IF Len(v.items) = 0 THEN Value(<<>>) ELSE Failed
      [] OTHER -> Failed

\* the value a page holds under the first of the keys k1, k2 that is in its
\* structured data (if k1 in sd: sd[k1] / elif k2 in sd: sd[k2]):
\* [raises, present, value]
Probe(sd, k1, k2) ==
    LET c1 == Contains(sd, k1)
        c2 == Contains(sd, k2)
        key == IF c1.value THEN k1 ELSE k2
    IN  IF c1.raises THEN [raises |-> TRUE, present |-> FALSE, value |-> JNum]
        ELSE IF ~c1.value /\ ~c2.value
        THEN [raises |-> FALSE, present |-> FALSE, value |-> JNum]
        ELSE IF sd.type # "object"
        THEN [raises |-> TRUE, present |-> FALSE, value |-> JNum]
        ELSE [raises |-> FALSE, present |-> TRUE, value |-> Member(sd, key)]

RECURSIVE Gather(_, _, _, _)
\* the loop of extract_well_plate_data, extract_standards_table and
\* extract_samples_data over results['pages'], from page i on
Gather(pgs, i, k1, k2) ==
    IF i > Len(pgs) THEN Value(<<>>)
    ELSE LET p == Probe(pgs[i].structured_data, k1, k2)
             here == IF p.raises THEN Failed
                     ELSE IF p.present THEN Iterate(p.value) ELSE Value(<<>>)
         IN  IF here.raises THEN Failed
             ELSE LET rest == Gather(pgs, i + 1, k1, k2)
                  IN  IF rest.raises THEN Failed
                      ELSE Value(here.value \o rest.value)

\* d.update(pairs) on a dict kept as its sequence of <<key, value>> pairs (the
\* keys of pairs are distinct): a key d holds keeps its place
DictUpdate(d, pairs) ==
    LET At(key) == CHOOSE j \in 1..Len(pairs) : pairs[j][1] = key
        Has(key) == \E j \in 1..Len(pairs) : pairs[j][1] = key
    IN  [i \in 1..Len(d) |-> IF Has(d[i][1]) THEN pairs[At(d[i][1])] ELSE d[i]]
        \o SelectSeq(pairs, LAMBDA kv : \A i \in 1..Len(d) : d[i][1] # kv[1])

RECURSIVE GatherSettings(_, _, _)
\* the loop of extract_settings: the pairs stored into results['settings']
GatherSettings(pgs, i, acc) ==
    IF i > Len(pgs) THEN Value(acc)
    ELSE LET p == Probe(pgs[i].structured_data, "settings", "instrument_settings")
             here == IF p.raises THEN Failed
                     ELSE IF p.present THEN Pairs(p.value) ELSE Value(<<>>)
         IN  IF here.raises THEN Failed
             ELSE GatherSettings(pgs, i + 1, DictUpdate(acc, here.value))

\* the results dict as extract_pdf_with_vision creates it
NewResults ==
    [pages |-> <<>>, well_plate_data |-> <<>>, standards_table |-> <<>>,
     settings |-> <<>>, samples_data |-> <<>>, full_content |-> <<>>, summary |-> ""]

\* what generate_summary returns
Summaries == {"No substantial content found for summary.", "summary text",
              "Summary generation failed"}

-----------------------------------------------------------------------------
(* The table recovery heuristic as a state machine: a section is chosen,   *)
(* parse_table_from_section is called on it, and a raw_single result may   *)
(* be fed back as a new one-line section.                                  *)

MaxLines == 4

\* a pipe header of two columns: '|a|b|'
PipeHeaderLine == <<"|","a","|","b","|">>
\* its dashed separator: '|--|--|'
PipeSeparatorLine == <<"|","-","-","|","-","-","|">>
\* a pipe row of three cells, the first holding a comma: '|1,1|2|3|'
PipeWideRowLine == <<"|","1",",","1","|","2","|","3","|">>
\* a pipe row of two cells followed by empty ones: '|1|2|||'
PipeTrailingRowLine == <<"|","1","|","2","|","|","|">>
\* a comma-delimited line: 'x,y'
CommaLine == <<"x",",","y">>
\* an indented Key: Value line: ' k: v'
KeyValueLine == <<" ","k",":"," ","v">>
\* a Key: Value line whose value holds commas: 'n: p,q,r'
KeyValueCommaLine == <<"n",":"," ","p",",","q",",","r">>
\* an empty line: ''
BlankLine == <<>>
\* a comma line that ends by opening a quoted field: 'a,"'
OpenQuoteLine == <<"a",",","\"">>

SectionLines == {PipeHeaderLine, PipeSeparatorLine, PipeWideRowLine,
                 PipeTrailingRowLine, CommaLine,
                 KeyValueLine, KeyValueCommaLine, BlankLine,
                 OpenQuoteLine}

Sections == UNION {[1..n -> SectionLines] : n \in 0..MaxLines}

ExtractorIdle ==
    /\ epc = "idle"
    /\ num_pages = 0
    /\ page_num = 0
    /\ results = NewResults
    /\ files = <<>>
    /\ returned = ""
    /\ raised_at = ""

LocatorIdle ==
    /\ raw_text = <<>>
    /\ lpc = "idle"
    /\ found = NotFound

ScriptIdle ==
    /\ script = ""
    /\ argc = 0
    /\ input_exists = FALSE
    /\ mpc = "idle"
    /\ written = <<>>
    /\ exit_code = -1

FlattenerIdle ==
    /\ fpc = "idle"
    /\ df_in = NoTable
    /\ df_out = NoTable

Init ==
    /\ section \in Sections
    /\ pc = "start"
    /\ outcome = "none"
    /\ method = ""
    /\ table = NoTable
    /\ csv_block = None
    /\ round = 0
    /\ prev_cell = None
    /\ LocatorIdle
    /\ ExtractorIdle
    /\ ScriptIdle
    /\ FlattenerIdle

\* df, method = parse_table_from_section(section_lines)
Parse ==
    /\ pc = "start"
    /\ \E r \in {ParseTableFromSection(section)} :
           /\ outcome' = r.outcome
           /\ method' = r.method
           /\ table' = r.table
           /\ csv_block' = IF r.method \in {"csv_block", "csv_block_relaxed"}
                           THEN ExtractCsvLikeBlock(section) ELSE None
    /\ pc' = "done"
    /\ UNCHANGED <<section, round, prev_cell, locator_vars, extractor_vars,
                   script_vars, flattener_vars>>

\* the FullContent cell of a raw_single result becomes a new section: either
\* its lines, cut as find_full_content_section cuts text (splitlines), or the
\* cell as the only line
FeedBack ==
    /\ pc = "done"
    /\ round = 0
    /\ outcome = "returned"
    /\ method = "raw_single"
    /\ section' \in {SplitLines(table.rows[1][1]), <<table.rows[1][1]>>}
    /\ prev_cell' = table.rows[1][1]
    /\ round' = 1
    /\ pc' = "start"
    /\ outcome' = "none"
    /\ method' = ""
    /\ table' = NoTable
    /\ csv_block' = None
    /\ UNCHANGED <<locator_vars, extractor_vars,
                   script_vars, flattener_vars>>

Next == Parse \/ FeedBack

Spec == Init /\ [][Next]_vars


(* The same machine on longer sections over fewer lines, for the runs of   *)
(* comma lines.                                                            *)
MaxRunLines == 6

RunLines == {CommaLine, KeyValueCommaLine, BlankLine}

InitRuns ==
    /\ section \in UNION {[1..n -> RunLines] : n \in 0..MaxRunLines}
    /\ pc = "start"
    /\ outcome = "none"
    /\ method = ""
    /\ table = NoTable
    /\ csv_block = None
    /\ round = 0
    /\ prev_cell = None
    /\ LocatorIdle
    /\ ExtractorIdle
    /\ ScriptIdle
    /\ FlattenerIdle

SpecRuns == InitRuns /\ [][Next]_vars


(* The section locator as a state machine: a text is chosen and            *)
(* find_full_content_section is called on it.                              *)
MaxTextLines == 4

\* an exact full-content header: 'FULL CONTENT'
ExactHeaderLine == <<"F","U","L","L"," ","C","O","N","T","E","N","T">>
\* an exact header in another case, indented: ' Full_Content'
ExactMixedCaseLine == <<" ","F","u","l","l","_","C","o","n","t","e","n","t">>
\* a header that only ends a section: 'METADATA'
TerminatorLine == <<"M","E","T","A","D","A","T","A">>
\* a heuristic header with a content word only: 'PAGE 1'
PageHeaderLine == <<"P","A","G","E"," ","1">>
\* a heuristic header with FULL and the plural CONTENTS: 'FULL CONTENTS'
PluralHeaderLine == <<"F","U","L","L"," ","C","O","N","T","E","N","T","S">>
\* a heuristic header with both kinds of word that ends no section:
\* 'EXTRACTED PAGE'
BothWordsHeaderLine == <<"E","X","T","R","A","C","T","E","D"," ","P","A","G","E">>
\* a body line: 'data'
DataLine == <<"d","a","t","a">>
\* 'FULL ' followed by upper-case letters, one character over the length limit
LongHeaderLine == <<"F","U","L","L"," ">> \o [i \in 1..(MaxHeaderLen - 4) |-> "A"]

TextLines == {ExactHeaderLine, ExactMixedCaseLine, TerminatorLine, PageHeaderLine,
              PluralHeaderLine, BothWordsHeaderLine, DataLine, BlankLine,
              LongHeaderLine}

Texts == {Join(ls, NL) : ls \in UNION {[1..n -> TextLines] : n \in 0..MaxTextLines}}

ParserIdle ==
    /\ section = <<>>
    /\ pc = "idle"
    /\ outcome = "none"
    /\ method = ""
    /\ table = NoTable
    /\ csv_block = None
    /\ round = 0
    /\ prev_cell = None

InitLocate ==
    /\ raw_text \in Texts
    /\ lpc = "start"
    /\ found = NotFound
    /\ ParserIdle
    /\ ExtractorIdle
    /\ ScriptIdle
    /\ FlattenerIdle

\* section_lines, header_idx, header_text = find_full_content_section(raw)
Locate ==
    /\ lpc = "start"
    /\ found' = FindFullContentSection(raw_text)
    /\ lpc' = "done"
    /\ UNCHANGED <<raw_text, parser_vars, extractor_vars,
                   script_vars, flattener_vars>>

NextLocate == Locate

SpecLocate == InitLocate /\ [][NextLocate]_vars


(* extract_pdf_with_vision as a state machine: the document is opened, its *)
(* pages are rendered and analysed one at a time, the four merge steps and *)
(* the summary run, and the three files are written.                       *)
MaxPages == 2

InitExtract ==
    /\ epc = "open"
    /\ num_pages \in 1..MaxPages
    /\ page_num = 0
    /\ results = NewResults
    /\ files = <<>>
    /\ returned = ""
    /\ raised_at = ""
    /\ ParserIdle
    /\ LocatorIdle
    /\ ScriptIdle
    /\ FlattenerIdle

\* except Exception as e: ... return None
Abort(at) ==
    /\ epc' = "done"
    /\ returned' = "None"
    /\ raised_at' = at

\* doc = fitz.open(pdf_path); results = {...}
Open ==
    /\ epc = "open"
    /\ \E ok \in BOOLEAN :
          IF ok
          THEN /\ epc' = "render"
               /\ UNCHANGED <<returned, raised_at>>
          ELSE Abort("open")
    /\ UNCHANGED <<num_pages, page_num, results, files, parser_vars, locator_vars,
                   script_vars, flattener_vars>>

\* page = doc.load_page(page_num); pix = page.get_pixmap(matrix=mat);
\* img_data = pix.tobytes("png"); img_b64 = ...
RenderPage ==
    /\ epc = "render"
    /\ page_num < num_pages
    /\ \E ok \in BOOLEAN :
          IF ok
          THEN /\ epc' = "analyze"
               /\ UNCHANGED <<returned, raised_at>>
          ELSE Abort("render")
    /\ UNCHANGED <<num_pages, page_num, results, files, parser_vars, locator_vars,
                   script_vars, flattener_vars>>

\* page_analysis = self.analyze_page_detailed(img_b64, page_num + 1);
\* results["pages"].append(page_analysis); results["full_content"] += ...
AnalyzePage ==
    /\ epc = "analyze"
    /\ \E resp \in Responses :
          LET page_analysis == AnalyzePageDetailed(resp, page_num + 1)
          IN  results' = [results EXCEPT
                  !.pages = Append(@, page_analysis),
                  !.full_content = Append(@, [banner |-> page_num + 1,
                                              text |-> page_analysis.text_content])]
    /\ page_num' = page_num + 1
    /\ epc' = IF page_num + 1 < num_pages THEN "render" ELSE "wells"
    /\ UNCHANGED <<num_pages, files, returned, raised_at, parser_vars, locator_vars,
                   script_vars, flattener_vars>>

\* self.extract_well_plate_data(results)
ExtractWellPlateData ==
    /\ epc = "wells"
    /\ LET r == Gather(results.pages, 1, "well_plate_data", "wells")
       IN  IF r.raises
           THEN Abort("extract_well_plate_data") /\ UNCHANGED results
           ELSE /\ results' = [results EXCEPT !.well_plate_data = r.value]
                /\ epc' = "standards"
                /\ UNCHANGED <<returned, raised_at>>
    /\ UNCHANGED <<num_pages, page_num, files, parser_vars, locator_vars,
                   script_vars, flattener_vars>>

\* self.extract_standards_table(results)
ExtractStandardsTable ==
    /\ epc = "standards"
    /\ LET r == Gather(results.pages, 1, "standards_table", "standards")
       IN  IF r.raises
           THEN Abort("extract_standards_table") /\ UNCHANGED results
           ELSE /\ results' = [results EXCEPT !.standards_table = r.value]
                /\ epc' = "settings"
                /\ UNCHANGED <<returned, raised_at>>
    /\ UNCHANGED <<num_pages, page_num, files, parser_vars, locator_vars,
                   script_vars, flattener_vars>>

\* self.extract_settings(results)
ExtractSettings ==
    /\ epc = "settings"
    /\ LET r == GatherSettings(results.pages, 1, results.settings)
       IN  IF r.raises
           THEN Abort("extract_settings") /\ UNCHANGED results
           ELSE /\ results' = [results EXCEPT !.settings = r.value]
                /\ epc' = "samples"
                /\ UNCHANGED <<returned, raised_at>>
    /\ UNCHANGED <<num_pages, page_num, files, parser_vars, locator_vars,
                   script_vars, flattener_vars>>

\* self.extract_samples_data(results)
ExtractSamplesData ==
    /\ epc = "samples"
    /\ LET r == Gather(results.pages, 1, "samples", "sample_data")
       IN  IF r.raises
           THEN Abort("extract_samples_data") /\ UNCHANGED results
           ELSE /\ results' = [results EXCEPT !.samples_data = r.value]
                /\ epc' = "summary"
                /\ UNCHANGED <<returned, raised_at>>
    /\ UNCHANGED <<num_pages, page_num, files, parser_vars, locator_vars,
                   script_vars, flattener_vars>>

\* results["summary"] = self.generate_summary(results["full_content"]); the
\* lengths of the texts are not modelled, so each of its three returns is
\* possible
GenerateSummary ==
    /\ epc = "summary"
    /\ \E text \in Summaries : results' = [results EXCEPT !.summary = text]
    /\ epc' = "save_json"
    /\ UNCHANGED <<num_pages, page_num, files, returned, raised_at, parser_vars,
                   locator_vars,
                   script_vars, flattener_vars>>

RECURSIVE HasLoneSurrogate(_)
\* a str of the value cannot be encoded as UTF-8
HasLoneSurrogate(v) ==
    \/ v.type = "string" /\ v.text = LoneSurrogate
    \/ \E i \in 1..Len(v.items) : v.items[i] = LoneSurrogate
    \/ \E i \in 1..Len(v.members) : HasLoneSurrogate(v.members[i][2])

\* save_all_formats: with open(json_file, 'w', encoding='utf-8') as f:
\* json.dump(results, f, indent=2, ensure_ascii=False).  The file is created
\* by open; the dump raises UnicodeEncodeError at a str that UTF-8 cannot
\* encode, and the file stays, cut off
SaveJson ==
    /\ epc = "save_json"
    /\ files' = Append(files, "json")
    /\ IF \E i \in 1..Len(results.pages) :
             HasLoneSurrogate(results.pages[i].structured_data)
       THEN Abort("save_all_formats")
       ELSE /\ epc' = "save_txt"
            /\ UNCHANGED <<returned, raised_at>>
    /\ UNCHANGED <<num_pages, page_num, results, parser_vars, locator_vars,
                   script_vars, flattener_vars>>

\* save_all_formats: self.save_as_txt(results, txt_file)
SaveTxt ==
    /\ epc = "save_txt"
    /\ files' = Append(files, "txt")
    /\ epc' = "save_csv"
    /\ UNCHANGED <<num_pages, page_num, results, returned, raised_at, parser_vars,
                   locator_vars,
                   script_vars, flattener_vars>>

\* save_all_formats: self.save_as_detailed_csv(results, csv_file), and then
\* return results
SaveCsv ==
    /\ epc = "save_csv"
    /\ files' = Append(files, "csv")
    /\ epc' = "done"
    /\ returned' = "results"
    /\ UNCHANGED <<num_pages, page_num, results, raised_at, parser_vars, locator_vars,
                   script_vars, flattener_vars>>

NextExtract ==
    \/ Open
    \/ RenderPage
    \/ AnalyzePage
    \/ ExtractWellPlateData
    \/ ExtractStandardsTable
    \/ ExtractSettings
    \/ ExtractSamplesData
    \/ GenerateSummary
    \/ SaveJson
    \/ SaveTxt
    \/ SaveCsv

SpecExtract == InitExtract /\ [][NextExtract]_vars

-----------------------------------------------------------------------------
(* Claims about parse_table_from_section.                                  *)

CsvMethods == {"csv_block", "csv_block_relaxed"}
MarkdownMethods == {"markdown_pipe", "markdown_pipe_manual"}

\* C1: for every section that is not the empty list, the table
\* parse_table_from_section returns has at least one row (stated for the
\* calls that return; the empty list gives no table and method "empty").
C1_ReturnedTableNonEmpty ==
    (pc = "done" /\ outcome = "returned") =>
        IF Len(section) = 0
        THEN method = "empty" /\ table.none
        ELSE method # "empty" /\ ~table.none /\ Len(table.rows) >= 1

\* C2: parse_table_from_section never raises: every strategy's failure is
\* absorbed and the call ends by returning a result.
C2_NeverRaises == pc = "done" => outcome = "returned"

\* lines i, i+1 are a pipe header line and a dashed separator line
HasMarkdownTable(lines) ==
    \E i \in 1..(Len(lines) - 1) :
        IsPipeHeader(lines[i]) /\ IsSeparatorLine(lines[i + 1])

\* lines i..j all contain a comma
CommaRun(lines, i, j) ==
    1 <= i /\ i <= j /\ j <= Len(lines) /\ \A k \in i..j : HasChar(lines[k], ",")

\* C3: a section holding both a markdown table (pipe header line, dashed
\* separator line, pipe rows) and a run of two or more comma lines is
\* answered by the markdown strategy, not by the delimited-block one.
C3_MarkdownBeforeCsv ==
    (/\ pc = "done"
     /\ HasMarkdownTable(section)
     /\ \E i \in 1..Len(section) : CommaRun(section, i, i + 1)) =>
        outcome = "returned" /\ method \in MarkdownMethods

\* every line has the Key: Value shape and there are at least two lines
AllKeyValue(lines) ==
    Len(lines) >= 2 /\ \A i \in 1..Len(lines) : IsKeyValueLine(lines[i])

\* the table is Field/Value with one row per line, in order: the text before
\* the line's first colon and the text after it, both trimmed
IsKeyValueTableOf(t, lines) ==
    /\ ~t.none
    /\ t.columns = <<FieldName, ValueName>>
    /\ Len(t.rows) = Len(lines)
    /\ \A i \in 1..Len(lines) :
          \E p \in 1..Len(lines[i]) :
              /\ lines[i][p] = ":"
              /\ \A q \in 1..(p - 1) : lines[i][q] # ":"
              /\ t.rows[i] = <<Strip(SubSeq(lines[i], 1, p - 1)),
                               Strip(SubSeq(lines[i], p + 1, Len(lines[i])))>>

C5_CsvOnlyOnLongestRun ==
    (pc = "done" /\ round = 0) =>
        /\ method \in CsvMethods =>
              \E i, j \in 1..Len(section) :
                  /\ j - i + 1 >= 2
                  /\ CommaRun(section, i, j)
                  /\ csv_block = Join(SubSeq(section, i, j), NL)
                  /\ \A a, b \in 1..Len(section) :
                        CommaRun(section, a, b) => b - a <= j - i
        /\ (~\E i \in 1..Len(section) : CommaRun(section, i, i + 1)) =>
              /\ method \notin CsvMethods
              /\ (Len(section) > 0 /\ ~HasMarkdownTable(section)) =>
                    /\ outcome = "returned"
                    /\ method \in {"key_value", "paragraphs", "raw_single"}

\* two runs of different lengths, the longer one second, and the
\* delimited-block strategy answered
C5_Witness ==
    /\ pc = "done"
    /\ round = 0
    /\ method \in CsvMethods
    /\ Len(section) = 6
    /\ CommaRun(section, 1, 2)
    /\ ~HasChar(section[3], ",")
    /\ CommaRun(section, 4, 6)
    /\ csv_block = Join(SubSeq(section, 4, 6), NL)

-----------------------------------------------------------------------------
(* Claims about find_full_content_section.                                 *)

\* the lines of the text that are exact full-content headers
ExactAt(lines) == {i \in 1..Len(lines) : IsExactKey(lines[i])}

\* the lines of the text that qualify as heuristic headers
HeuristicAt(lines) == {i \in 1..Len(lines) : IsHeuristicHeader(Strip(lines[i]))}

Least(S) == CHOOSE x \in S : \A y \in S : x <= y

\* sec is lines[(h+1)..(e-1)] without its leading and trailing blank lines
IsTrimmedBody(sec, lines, h, e) ==
    \E a \in (h + 1)..e : \E b \in h..(e - 1) :
        /\ \A k \in (h + 1)..(a - 1) : IsBlank(lines[k])
        /\ \A k \in (b + 1)..(e - 1) : IsBlank(lines[k])
        /\ IF a > b
           THEN sec = <<>>
           ELSE /\ ~IsBlank(lines[a])
                /\ ~IsBlank(lines[b])
                /\ sec = SubSeq(lines, a, b)

\* C6: when a line is an exact full-content header, the section returned is
\* the lines strictly between the first such line and the first later
\* terminator header (or the end of the text), without leading and trailing
\* blank lines.
C6_SectionBetweenHeaderAndTerminator ==
    LET lines == SplitLines(raw_text)
    IN  (lpc = "done" /\ ExactAt(lines) # {}) =>
            LET h == Least(ExactAt(lines))
                ends == {j \in (h + 1)..Len(lines) : IsTerminator(lines[j])}
                e == IF ends = {} THEN Len(lines) + 1 ELSE Least(ends)
            IN  /\ ~found.none
                /\ IsTrimmedBody(found.section_lines, lines, h, e)

\* header, blank line, body line, terminator: the section is the body line
C6_Witness ==
    /\ lpc = "done"
    /\ SplitLines(raw_text) = <<ExactHeaderLine, BlankLine, DataLine, TerminatorLine>>
    /\ found.section_lines = <<DataLine>>

\* the header chosen is line i of the text, with the text given
ChoosesHeader(lines, i, txt) ==
    /\ ~found.none
    /\ found.header_idx = i - 1
    /\ found.header_text = txt

\* the precedence of C7 with the set cw of content words
HeaderPrecedence(cw) ==
    LET lines == SplitLines(raw_text)
        E == ExactAt(lines)
        H == HeuristicAt(lines)
        B == {i \in H : /\ HasWord(Strip(lines[i]), CompletenessWords)
                        /\ HasWord(Strip(lines[i]), cw)}
    IN  lpc = "done" =>
            /\ E # {} => ChoosesHeader(lines, Least(E), lines[Least(E)])
            /\ (E = {} /\ B # {}) => ChoosesHeader(lines, Least(B), Strip(lines[Least(B)]))
            /\ (E = {} /\ B = {} /\ H # {}) =>
                  ChoosesHeader(lines, Least(H), Strip(lines[Least(H)]))

\* C7 (as claimed): the first exact header; else the first heuristic header
\* with a completeness word (COMPLETE/EXTRACTED/FULL) and a content word
\* (CONTENT/PAGE); else the first heuristic header.
C7_HeaderPrecedence ==
    HeaderPrecedence({<<"C","O","N","T","E","N","T">>, <<"P","A","G","E">>})

\* C7 (amended): the same with CONTENTS counted as a content word too.
C7_HeaderPrecedenceWithPlural ==
    HeaderPrecedence({<<"C","O","N","T","E","N","T">>, <<"C","O","N","T","E","N","T","S">>, <<"P","A","G","E">>})

\* an exact header wins over an earlier heuristic header
C7_Witness ==
    LET lines == SplitLines(raw_text)
    IN  /\ lpc = "done"
        /\ ExactAt(lines) # {}
        /\ HeuristicAt(lines) # {}
        /\ Least(HeuristicAt(lines)) < Least(ExactAt(lines))
        /\ found.header_idx = Least(ExactAt(lines)) - 1

\* C8: the result is "not found" exactly when no line is an exact header and
\* no line qualifies as a heuristic header; otherwise a section is returned.
C8_NotFoundIffNoHeader ==
    LET lines == SplitLines(raw_text)
    IN  lpc = "done" =>
            /\ found.none <=> (ExactAt(lines) = {} /\ HeuristicAt(lines) = {})
            /\ found.none => /\ found.section_lines = <<>>
                             /\ found.header_idx = -1
                             /\ found.header_text = None

\* a text with a header-shaped line that is too long, and no header, is not
\* found
C8_Witness ==
    LET lines == SplitLines(raw_text)
    IN  /\ lpc = "done"
        /\ found.none
        /\ \E i, j \in 1..Len(lines) : lines[i] = DataLine /\ lines[j] = LongHeaderLine

-----------------------------------------------------------------------------
(* Claims about extract_pdf_with_vision.                                   *)

\* C10: once the document is open, whatever fails while a page is rendered
\* or analysed, or however unexpected a page's reply is, the extraction
\* ends with a result that holds a record of every page, and with its three
\* output files written.
C10_PageFailureCaughtLocally ==
    (epc = "done" /\ raised_at # "open") =>
        /\ returned = "results"
        /\ Len(results.pages) = num_pages
        /\ files = <<"json", "txt", "csv">>

\* the record and the piece of full_content of the i-th page handled
PageRecord(i) == results.pages[i]

\* C16: after k pages have been handled, the page list holds k records
\* numbered 1..k in order and full_content holds, in the same order, one
\* banner "=== PAGE n ===" with the page's text_content per page; the record
\* of a page whose remote call failed holds the error string as its text and
\* empty structured data, and the record of a page whose reply is no JSON
\* holds {"raw_content": text}.
C16_PageLoopInvariant ==
    /\ Len(results.pages) = page_num
    /\ Len(results.full_content) = page_num
    /\ \A i \in 1..Len(results.pages) :
          /\ PageRecord(i).page_number = i
          /\ results.full_content[i]
                = [banner |-> i, text |-> PageRecord(i).text_content]
          /\ IF PageRecord(i).text_content.error
             THEN /\ PageRecord(i).text_content.page = i
                  /\ PageRecord(i).structured_data = JObj(<<>>)
             ELSE JsonLoads(PageRecord(i).text_content.body).ok
                  \/ PageRecord(i).structured_data
                        = JObj(<< <<"raw_content", JStr(PageRecord(i).text_content.body)>> >>)

\* two pages handled: the call for the first failed, the reply for the
\* second is prose
C16_Witness ==
    /\ page_num = 2
    /\ Len(results.pages) = 2
    /\ PageRecord(1).text_content.error
    /\ PageRecord(1).structured_data = JObj(<<>>)
    /\ PageRecord(2).text_content = Text(ProseText)
    /\ PageRecord(2).structured_data = JObj(<< <<"raw_content", JStr(ProseText)>> >>)

\* the extraction has run its four merge steps
Merged == epc \in {"summary", "save_json", "save_txt", "save_csv"} \/ returned = "results"

HoldsKey(sd, key) ==
    sd.type = "object" /\ \E i \in 1..Len(sd.members) : sd.members[i][1] = key

\* the entries of the list a page holds under k1 if it has k1, else under k2;
\* a page that holds no list there has no entries
HeldList(sd, k1, k2) ==
    IF HoldsKey(sd, k1) THEN Member(sd, k1).items
    ELSE IF HoldsKey(sd, k2) THEN Member(sd, k2).items
    ELSE <<>>

RECURSIVE Concatenation(_, _, _, _)
Concatenation(pgs, i, k1, k2) ==
    IF i > Len(pgs) THEN <<>>
    ELSE HeldList(pgs[i].structured_data, k1, k2) \o Concatenation(pgs, i + 1, k1, k2)

\* C11: after the merge step each aggregate list (wells, standards, samples)
\* is the concatenation, in page order, of the lists the pages hold under the
\* category's first probed key, else under its second; nothing else enters
\* an aggregate, and nothing is dropped or deduplicated.
C11_AggregatesAreConcatenations ==
    Merged =>
        /\ results.well_plate_data
               = Concatenation(results.pages, 1, "well_plate_data", "wells")
        /\ results.standards_table
               = Concatenation(results.pages, 1, "standards_table", "standards")
        /\ results.samples_data
               = Concatenation(results.pages, 1, "samples", "sample_data")

-----------------------------------------------------------------------------
(* extract_fullcontent_to_excel.py run as a program: the __main__ block    *)
(* and main(csv_path).                                                     *)

RecoveryScript == "extract_fullcontent_to_excel.py"
OUTPUT_XLSX_SUFFIX == "_fullcontent.xlsx"
OUTPUT_CSV_SUFFIX == "_fullcontent_table.csv"

\* raw[:100000]
RawCellLimit == 100000
Truncate(raw) == IF Len(raw) <= RawCellLimit THEN raw ELSE SubSeq(raw, 1, RawCellLimit)

\* df.empty
IsEmptyFrame(df) == Len(df.rows) = 0 \/ Len(df.columns) = 0

\* one write of an output file: the file, the call that writes it, the sheet
\* (of a workbook) and the text or the frame written
WriteOf(file, by, sheet, text, frame) ==
    [file |-> file, by |-> by, sheet |-> sheet, text |-> text, frame |-> frame]

\* auto_format_excel(excel_path): load_workbook, restyle, wb.save(excel_path);
\* the cells keep their values
Reformatted(w) == [w EXCEPT !.by = "auto_format_excel"]

MaxScriptLines == 4

\* the lines of the input file of the script
ScriptLines == {ExactHeaderLine, TerminatorLine, PipeHeaderLine, PipeSeparatorLine,
                PipeWideRowLine, OpenQuoteLine, DataLine}

ScriptTexts ==
    {Join(ls, NL) : ls \in UNION {[1..n -> ScriptLines] : n \in 0..MaxScriptLines}}

InitRecovery ==
    /\ script = RecoveryScript
    /\ argc \in {0, 1}
    /\ input_exists \in (IF argc = 1 THEN BOOLEAN ELSE {FALSE})
    /\ raw_text \in (IF input_exists THEN ScriptTexts ELSE {<<>>})
    /\ mpc = "argv"
    /\ written = <<>>
    /\ exit_code = -1
    /\ lpc = "idle"
    /\ found = NotFound
    /\ ParserIdle
    /\ ExtractorIdle
    /\ FlattenerIdle

\* sys.exit(n), or the interpreter ending on an uncaught exception (n = 1)
Exit(n) ==
    /\ mpc' = "exit"
    /\ exit_code' = n

\* if len(sys.argv) < 2: print usage; sys.exit(1)
CheckArguments ==
    /\ script = RecoveryScript
    /\ mpc = "argv"
    /\ IF argc < 1 THEN Exit(1) ELSE mpc' = "exists" /\ UNCHANGED exit_code
    /\ UNCHANGED <<script, argc, input_exists, written, parser_vars, locator_vars,
                   extractor_vars, flattener_vars>>

\* if not csv_path.exists(): ... return 2
CheckInput ==
    /\ script = RecoveryScript
    /\ mpc = "exists"
    /\ IF input_exists THEN mpc' = "locate" /\ UNCHANGED exit_code ELSE Exit(2)
    /\ UNCHANGED <<script, argc, input_exists, written, parser_vars, locator_vars,
                   extractor_vars, flattener_vars>>

\* raw = read_raw_text(csv_path);
\* section_lines, header_idx, header_text = find_full_content_section(raw)
LocateSection ==
    /\ script = RecoveryScript
    /\ mpc = "locate"
    /\ \E f \in {FindFullContentSection(raw_text)} :
          /\ found' = f
          /\ section' = f.section_lines
          /\ mpc' = IF f.none THEN "write_fallback" ELSE "parse"
    /\ UNCHANGED <<script, argc, input_exists, written, exit_code, raw_text, lpc, pc,
                   outcome, method, table, csv_block, round, prev_cell,
                   extractor_vars, flattener_vars>>

\* df, method = parse_table_from_section(section_lines); an exception it
\* raises is caught nowhere and ends the process
ParseSection ==
    /\ script = RecoveryScript
    /\ mpc = "parse"
    /\ \E r \in {ParseTableFromSection(section)} :
          /\ outcome' = r.outcome
          /\ method' = r.method
          /\ table' = r.table
          /\ IF r.outcome = "raised" THEN Exit(1)
             ELSE /\ mpc' = IF r.table.none \/ IsEmptyFrame(r.table)
                             THEN "write_raw" ELSE "write_csv"
                  /\ UNCHANGED exit_code
    /\ UNCHANGED <<script, argc, input_exists, written, section, pc, csv_block,
                   round, prev_cell, locator_vars, extractor_vars, flattener_vars>>

\* the fallback of a text without section: the text, cut to its first
\* 100000 characters, in one cell of sheet FullContent_Raw
WriteFallback ==
    /\ script = RecoveryScript
    /\ mpc = "write_fallback"
    /\ written' = Append(written, WriteOf(OUTPUT_XLSX_SUFFIX, "ExcelWriter",
                                          "FullContent_Raw", Truncate(raw_text), NoTable))
    /\ mpc' = "format"
    /\ UNCHANGED <<script, argc, input_exists, exit_code, parser_vars, locator_vars,
                   extractor_vars, flattener_vars>>

\* if df is None or df.empty: the raw section in one cell of FullContent_Raw
WriteRawSection ==
    /\ script = RecoveryScript
    /\ mpc = "write_raw"
    /\ written' = Append(written, WriteOf(OUTPUT_XLSX_SUFFIX, "ExcelWriter",
                                          "FullContent_Raw", Join(section, NL), NoTable))
    /\ mpc' = "format"
    /\ UNCHANGED <<script, argc, input_exists, exit_code, parser_vars, locator_vars,
                   extractor_vars, flattener_vars>>

\* df.to_csv(out_csv, index=False)
WriteTableCsv ==
    /\ script = RecoveryScript
    /\ mpc = "write_csv"
    /\ written' = Append(written, WriteOf(OUTPUT_CSV_SUFFIX, "to_csv", "", <<>>, table))
    /\ mpc' = "write_table"
    /\ UNCHANGED <<script, argc, input_exists, exit_code, parser_vars, locator_vars,
                   extractor_vars, flattener_vars>>

\* with pd.ExcelWriter(out_xlsx, ...): df.to_excel(..., sheet_name="FullContent")
WriteTable ==
    /\ script = RecoveryScript
    /\ mpc = "write_table"
    /\ written' = Append(written, WriteOf(OUTPUT_XLSX_SUFFIX, "ExcelWriter",
                                          "FullContent", <<>>, table))
    /\ mpc' = "format"
    /\ UNCHANGED <<script, argc, input_exists, exit_code, parser_vars, locator_vars,
                   extractor_vars, flattener_vars>>

\* auto_format_excel(out_xlsx), which saves the workbook over the file the
\* ExcelWriter wrote, and return 0
AutoFormatExcel ==
    /\ script = RecoveryScript
    /\ mpc = "format"
    /\ written' = Append(written, Reformatted(written[Len(written)]))
    /\ Exit(0)
    /\ UNCHANGED <<script, argc, input_exists, parser_vars, locator_vars,
                   extractor_vars, flattener_vars>>

NextRecovery ==
    \/ CheckArguments
    \/ CheckInput
    \/ LocateSection
    \/ ParseSection
    \/ WriteFallback
    \/ WriteRawSection
    \/ WriteTableCsv
    \/ WriteTable
    \/ AutoFormatExcel

SpecRecovery == InitRecovery /\ [][NextRecovery]_vars

-----------------------------------------------------------------------------
(* CSV_To_Excel.py: the flattening of column structured_data.  The cells   *)
(* of its frames are Python values, kept as the records of the JSON model. *)

FlattenerScript == "CSV_To_Excel.py"
StructuredData == "structured_data"

\* a cell without value
JNaN == [type |-> "nan", text |-> "", items |-> <<>>, members |-> <<>>]

ColumnOf(df, name) == CHOOSE c \in 1..Len(df.columns) : df.columns[c] = name
HasColumn(df, name) == \E c \in 1..Len(df.columns) : df.columns[c] = name

\* lambda x: json.loads(x) if x else {}
LoadCell(x) == IF x.text = "" THEN [ok |-> TRUE, value |-> JObj(<<>>)] ELSE JsonLoads(x.text)

RECURSIVE NormaliseJson(_, _)
\* pandas' _normalise_json: the members of nested objects under dotted names
NormaliseJson(members, key_string) ==
    IF members = <<>> THEN <<>>
    ELSE LET key == Head(members)[1]
             value == Head(members)[2]
             new_key == IF key_string = "" THEN key ELSE key_string \o "." \o key
         IN  (IF value.type = "object" THEN NormaliseJson(value.members, new_key)
              ELSE << <<new_key, value>> >>)
             \o NormaliseJson(Tail(members), key_string)

\* pandas' _normalise_json_ordered: the members that are no objects first,
\* then the flattened objects
NormaliseJsonOrdered(obj) ==
    SelectSeq(obj.members, LAMBDA kv : kv[2].type # "object")
    \o NormaliseJson(SelectSeq(obj.members, LAMBDA kv : kv[2].type = "object"), "")

RECURSIVE UnionKeys(_, _, _)
\* the columns of DataFrame(list of dicts): the keys in order of first sight
UnionKeys(dicts, i, acc) ==
    IF i > Len(dicts) THEN acc
    ELSE LET ks == [j \in 1..Len(dicts[i]) |-> dicts[i][j][1]]
             new == SelectSeq(ks, LAMBDA k : \A j \in 1..Len(acc) : acc[j] # k)
         IN  UnionKeys(dicts, i + 1, acc \o new)

\* d.get(key, nan)
Lookup(d, key) ==
    IF \E j \in 1..Len(d) : d[j][1] = key
    THEN d[CHOOSE j \in 1..Len(d) : d[j][1] = key][2]
    ELSE JNaN

\* pd.json_normalize(json_cols)
JsonNormalize(objs) ==
    LET dicts == [i \in 1..Len(objs) |-> NormaliseJsonOrdered(objs[i])]
        cols == UnionKeys(dicts, 1, <<>>)
    IN  DataFrame(cols, <<>>,
                  [i \in 1..Len(objs) |-> [c \in 1..Len(cols) |-> Lookup(dicts[i], cols[c])]])

\* df.drop(columns=[name])
Drop(df, name) ==
    LET keep == SelectSeq([c \in 1..Len(df.columns) |-> c],
                          LAMBDA c : df.columns[c] # name)
    IN  DataFrame([k \in 1..Len(keep) |-> df.columns[keep[k]]], <<>>,
                  [i \in 1..Len(df.rows) |->
                      [k \in 1..Len(keep) |-> df.rows[i][keep[k]]]])

FlattenRaised == [raises |-> TRUE, frame |-> NoTable]
Flattened(df) == [raises |-> FALSE, frame |-> df]

\* left.join(right) of two frames with the same row labels: ValueError when
\* a column name is in both
JoinFrames(left, right) ==
    IF \E c \in 1..Len(left.columns) : HasColumn(right, left.columns[c])
    THEN FlattenRaised
    ELSE Flattened(DataFrame(left.columns \o right.columns, <<>>,
                             [i \in 1..Len(left.rows) |-> left.rows[i] \o right.rows[i]]))

\* lines 17-21: if 'structured_data' in df.columns: ... df = df.drop(...).join(json_df)
FlattenStructuredData(df) ==
    IF ~HasColumn(df, StructuredData) THEN Flattened(df)
    ELSE The({(IF \E i \in 1..Len(loaded) : ~loaded[i].ok THEN FlattenRaised
               ELSE JoinFrames(Drop(df, StructuredData),
                               JsonNormalize([i \in 1..Len(loaded) |-> loaded[i].value]))) :
              loaded \in {[i \in 1..Len(df.rows) |->
                              LoadCell(df.rows[i][ColumnOf(df, StructuredData)])]}})

MaxFrameRows == 2

\* the cell texts of column structured_data in the input
CellTexts == {AOneText, ATwoText, NestedText, PageKeyText, OtherKeyText, "", NotJsonText}

\* the column layouts of the input
Layouts == {<<"page", StructuredData>>, <<StructuredData, "note">>, <<"page", "note">>}

\* the cell of row i in a column that is not structured_data
PlainCell(name, i) == JStr(name \o (IF i = 1 THEN "-1" ELSE IF i = 2 THEN "-2" ELSE "-n"))

FlattenerFrames ==
    {DataFrame(cols, <<>>,
               [i \in 1..Len(cells) |->
                   [c \in 1..Len(cols) |->
                       IF cols[c] = StructuredData THEN JStr(cells[i])
                       ELSE PlainCell(cols[c], i)]]) :
        cols \in Layouts,
        cells \in UNION {[1..n -> CellTexts] : n \in 1..MaxFrameRows}}

InitFlatten ==
    /\ fpc = "start"
    /\ df_in \in FlattenerFrames
    /\ df_out = NoTable
    /\ ParserIdle
    /\ LocatorIdle
    /\ ExtractorIdle
    /\ ScriptIdle

\* the flattening of the frame read
Flatten ==
    /\ fpc = "start"
    /\ \E r \in {FlattenStructuredData(df_in)} :
          /\ fpc' = IF r.raises THEN "raised" ELSE "done"
          /\ df_out' = r.frame
    /\ UNCHANGED <<df_in, parser_vars, locator_vars, extractor_vars, script_vars>>

NextFlatten == Flatten

SpecFlatten == InitFlatten /\ [][NextFlatten]_vars

-----------------------------------------------------------------------------
(* The other scripts run as programs: csv_to_excel_converter.py,           *)
(* complete_pdf_extractor.py and CSV_To_Excel.py.  None of them reads its  *)
(* command line: their paths are written in the source.                    *)

ConverterScript == "csv_to_excel_converter.py"
ExtractorScript == "complete_pdf_extractor.py"

CategoryName == <<"C","a","t","e","g","o","r","y">>
ConverterFieldName == <<"F","i","e","l","d">>
ConverterValueName == <<"V","a","l","u","e">>
SectionPrefix == <<"=","=","=">>
KeySeparator == <<" ","|"," ">>

\* the rows of the converter's input: a section row '=== A', a row with a
\* field ' c', 'f ', 'v', and a row without one
ConverterRows == {<<<<"=","=","="," ","A">>, <<>>, <<>>>>, <<<<" ","c">>, <<"f"," ">>, <<"v">>>>, <<<<"c">>, <<>>, <<"v">>>>}

\* the frames pd.read_csv gives the converter: the three columns it reads,
\* or other columns; NoTable stands for a file pd.read_csv raises on
ConverterFrames ==
    {DataFrame(<<CategoryName, ConverterFieldName, ConverterValueName>>, <<>>, rows) :
        rows \in UNION {[1..n -> ConverterRows] : n \in 0..MaxFrameRows}}
    \cup {DataFrame(<<<<"x">>>>, <<>>, rows) : rows \in {<<>>, << <<<<"1">>>> >>}}
    \cup {NoTable}

\* row['Category'] and the like: the cell of a row under a column name
CellOf(df, i, name) == df.rows[i][CHOOSE c \in 1..Len(df.columns) : df.columns[c] = name]

\* the cells the converter puts into the worksheet row of the i-th row
KeyValueRow(df, i) ==
    LET category == Strip(CellOf(df, i, CategoryName))
        field == Strip(CellOf(df, i, ConverterFieldName))
        value == Strip(CellOf(df, i, ConverterValueName))
    IN  IF StartsWith(category, SectionPrefix) THEN <<category>>
        ELSE <<(IF Len(field) > 0 THEN category \o KeySeparator \o field ELSE category),
               value>>

InitConverter ==
    /\ script = ConverterScript
    /\ argc \in {0, 1}
    /\ input_exists \in BOOLEAN
    /\ df_in \in (IF input_exists THEN ConverterFrames ELSE {NoTable})
    /\ mpc = "exists"
    /\ written = <<>>
    /\ exit_code = -1
    /\ fpc = "idle"
    /\ df_out = NoTable
    /\ ParserIdle
    /\ LocatorIdle
    /\ ExtractorIdle

\* if not csv_path.exists(): print(...); return -- the script then ends
ConverterCheckInput ==
    /\ script = ConverterScript
    /\ mpc = "exists"
    /\ IF input_exists THEN mpc' = "convert" /\ UNCHANGED exit_code ELSE Exit(0)
    /\ UNCHANGED <<script, argc, input_exists, written, parser_vars, locator_vars,
                   extractor_vars, flattener_vars>>

\* df = pd.read_csv(...) and the loop over df.iterrows(): an exception of
\* read_csv, or the KeyError of a column the frame lacks, ends the process
ConvertRows ==
    /\ script = ConverterScript
    /\ mpc = "convert"
    /\ IF \/ df_in.none
          \/ /\ Len(df_in.rows) > 0
             /\ \E name \in {CategoryName, ConverterFieldName, ConverterValueName} :
                   \A c \in 1..Len(df_in.columns) : df_in.columns[c] # name
       THEN Exit(1) /\ UNCHANGED df_out
       ELSE /\ df_out' = DataFrame(<<>>, <<>>,
                                   [i \in 1..Len(df_in.rows) |-> KeyValueRow(df_in, i)])
            /\ mpc' = "save"
            /\ UNCHANGED exit_code
    /\ UNCHANGED <<script, argc, input_exists, written, fpc, df_in, parser_vars,
                   locator_vars, extractor_vars>>

\* wb.save(excel_path)
SaveWorkbook ==
    /\ script = ConverterScript
    /\ mpc = "save"
    /\ written' = Append(written, WriteOf("pg1_data_key_value.xlsx", "Workbook.save",
                                          "PDF Content", <<>>, df_out))
    /\ Exit(0)
    /\ UNCHANGED <<script, argc, input_exists, parser_vars, locator_vars,
                   extractor_vars, flattener_vars>>

InitExtractorScript ==
    /\ script = ExtractorScript
    /\ argc \in {0, 1}
    /\ input_exists \in BOOLEAN
    /\ mpc = "main"
    /\ written = <<>>
    /\ exit_code = -1
    /\ ParserIdle
    /\ LocatorIdle
    /\ ExtractorIdle
    /\ FlattenerIdle

\* main: extractor = EnhancedPDFExtractor().  __init__ reads the name
\* api_key, whose assignment is a comment (lines 18-19): NameError, caught
\* nowhere
ConstructExtractor ==
    /\ script = ExtractorScript
    /\ mpc = "main"
    /\ Exit(1)
    /\ UNCHANGED <<script, argc, input_exists, written, parser_vars, locator_vars,
                   extractor_vars, flattener_vars>>

InitFlattenerScript ==
    /\ script = FlattenerScript
    /\ argc \in {0, 1}
    /\ input_exists \in BOOLEAN
    /\ df_in \in (IF input_exists THEN FlattenerFrames ELSE {NoTable})
    /\ mpc = "read"
    /\ written = <<>>
    /\ exit_code = -1
    /\ fpc = "idle"
    /\ df_out = NoTable
    /\ ParserIdle
    /\ LocatorIdle
    /\ ExtractorIdle

\* df = pd.read_csv(csv_path, ...): FileNotFoundError when there is no file
ReadInput ==
    /\ script = FlattenerScript
    /\ mpc = "read"
    /\ IF input_exists
       THEN mpc' = "flatten" /\ fpc' = "start" /\ UNCHANGED exit_code
       ELSE Exit(1) /\ UNCHANGED fpc
    /\ UNCHANGED <<script, argc, input_exists, written, df_in, df_out, parser_vars,
                   locator_vars, extractor_vars>>

\* df.to_excel(excel_path, index=False) and the end of the script, or the
\* end of the process on the exception the flattening raised
FinishFlattener ==
    /\ script = FlattenerScript
    /\ mpc = "flatten"
    /\ fpc \in {"done", "raised"}
    /\ IF fpc = "raised" THEN Exit(1) /\ UNCHANGED written
       ELSE /\ written' = Append(written, WriteOf("pg1_structured_data.xlsx", "to_excel",
                                                  "Sheet1", <<>>, df_out))
            /\ Exit(0)
    /\ UNCHANGED <<script, argc, input_exists, parser_vars, locator_vars,
                   extractor_vars, flattener_vars>>

InitScripts ==
    \/ InitRecovery
    \/ InitConverter
    \/ InitExtractorScript
    \/ InitFlattenerScript

NextScripts ==
    \/ NextRecovery
    \/ ConverterCheckInput
    \/ ConvertRows
    \/ SaveWorkbook
    \/ ConstructExtractor
    \/ ReadInput
    \/ Flatten
    \/ FinishFlattener

SpecScripts == InitScripts /\ [][NextScripts]_vars

-----------------------------------------------------------------------------
(* Claims about the scripts run as programs.                               *)

\* a spreadsheet with the given sheet has been written
SheetWritten(sheet) ==
    \E i \in 1..Len(written) :
        written[i].file = OUTPUT_XLSX_SUFFIX /\ written[i].sheet = sheet

\* C12: whenever the input file exists, main ends with the spreadsheet
\* written and with 0: the whole text in sheet FullContent_Raw when no section
\* is found, the raw section in FullContent_Raw when no table or an empty one
\* is parsed, the table in sheet FullContent otherwise.
C12_AlwaysWritesSpreadsheet ==
    (script = RecoveryScript /\ mpc = "exit" /\ input_exists) =>
        /\ exit_code = 0
        /\ \E i \in 1..Len(written) :
              /\ written[i].file = OUTPUT_XLSX_SUFFIX
              /\ IF found.none
                 THEN written[i].sheet = "FullContent_Raw" /\ written[i].text = raw_text
                 ELSE IF table.none \/ IsEmptyFrame(table)
                 THEN /\ written[i].sheet = "FullContent_Raw"
                      /\ written[i].text = Join(section, NL)
                 ELSE written[i].sheet = "FullContent" /\ written[i].frame = table

\* the script is run without the positional argument it requires
ArgumentMissing == script = RecoveryScript /\ argc = 0

\* C13: a script that has ended has ended with 1 when its required path
\* argument was missing, with 2 and without any output file when its input
\* file was missing, and with 0 when it has written its output.
C13_ExitCodes ==
    (mpc = "exit") =>
        /\ ArgumentMissing => exit_code = 1
        /\ (~ArgumentMissing /\ ~input_exists) => exit_code = 2 /\ written = <<>>
        /\ (input_exists /\ written # <<>>) => exit_code = 0

-----------------------------------------------------------------------------
(* The two pipelines that write output files at their end: the extraction  *)
(* and the table recovery.                                                 *)

InitPipelines ==
    \/ InitExtract
    \/ InitRecovery

NextPipelines ==
    \/ NextExtract
    \/ NextRecovery

SpecPipelines == InitPipelines /\ [][NextPipelines]_vars

\* the positions of the extraction after the page loop, the four merge steps
\* and the summary
AfterSummary == epc \in {"save_json", "save_txt", "save_csv", "done"}

\* the positions of main after section location and parsing
AfterParsing == mpc \in {"write_fallback", "write_raw", "write_csv", "write_table",
                         "format", "exit"}

\* the number of writes of a file by a call
Writes(file, by) ==
    Cardinality({i \in 1..Len(written) : written[i].file = file /\ written[i].by = by})

\* C15: output files are written once and at the end only.  The extraction
\* writes no file before every page is processed, the merges have run and
\* the summary is made, writes no file twice, and has written none when it
\* aborts; the table recovery writes its spreadsheet (and its CSV) once,
\* after section location and parsing.
C15_FilesWrittenOnceAtEnd ==
    /\ files # <<>> =>
          /\ AfterSummary
          /\ page_num = num_pages
          /\ Len(results.pages) = num_pages
          /\ results.summary # ""
    /\ \A i, j \in 1..Len(files) : files[i] = files[j] => i = j
    /\ returned = "None" => files = <<>>
    /\ written # <<>> => AfterParsing
    /\ Writes(OUTPUT_XLSX_SUFFIX, "ExcelWriter") <= 1
    /\ Writes(OUTPUT_CSV_SUFFIX, "to_csv") <= 1
    /\ (script = RecoveryScript /\ mpc = "exit" /\ exit_code = 0) =>
          Writes(OUTPUT_XLSX_SUFFIX, "ExcelWriter") = 1

-----------------------------------------------------------------------------
(* Claims about CSV_To_Excel.py.                                           *)

\* the JSON object in row i of column structured_data
RowObject(i) == JsonLoads(df_in.rows[i][ColumnOf(df_in, StructuredData)].text)

\* every cell of column structured_data is the text of a JSON object
CellsAreJsonObjects ==
    /\ HasColumn(df_in, StructuredData)
    /\ \A i \in 1..Len(df_in.rows) :
          /\ df_in.rows[i][ColumnOf(df_in, StructuredData)].text # ""
          /\ RowObject(i).ok
          /\ RowObject(i).value.type = "object"

\* C14: for a frame whose column structured_data holds JSON-object strings
\* the flattener gives a table without column structured_data, with every
\* other column and the rows in their order, and with a column for every key
\* of the objects that holds, in row i, the value of the key in row i's object.
C14_FlattenedTable ==
    (fpc # "start" /\ fpc # "idle" /\ CellsAreJsonObjects) =>
        /\ fpc = "done"
        /\ ~HasColumn(df_out, StructuredData)
        /\ Len(df_out.rows) = Len(df_in.rows)
        /\ \A c \in 1..Len(df_in.columns) :
              df_in.columns[c] # StructuredData =>
                  /\ HasColumn(df_out, df_in.columns[c])
                  /\ \A i \in 1..Len(df_in.rows) :
                        df_out.rows[i][ColumnOf(df_out, df_in.columns[c])]
                            = df_in.rows[i][c]
        /\ \A i \in 1..Len(df_in.rows) :
              \A m \in 1..Len(RowObject(i).value.members) :
                  LET kv == RowObject(i).value.members[m]
                  IN  /\ HasColumn(df_out, kv[1])
                      /\ df_out.rows[i][ColumnOf(df_out, kv[1])] = kv[2]

====
